---- MODULE Spec2Model ----
(***************************************************************************)
(* Model of the command line interface of dji-telemetry                    *)
(* (src/dji_telemetry/cli.py): the five sub-commands overlay,              *)
(* overlay-only, frames, export and info, the calls each makes to its      *)
(* collaborators and the file operations it performs.                      *)
(*                                                                         *)
(* A path is the sequence of the atoms of its final component, e.g.        *)
(* <<"a", "_temp", ".", "mp4">> is a_temp.mp4; the atom "." is the only    *)
(* one holding a dot and no atom is a prefix of another, so two paths are  *)
(* the same string exactly when they are the same sequence.  with_name     *)
(* and with_suffix keep the parent directory, which is left out.  The      *)
(* empty sequence is None (and the empty string: both are falsy).          *)
(***************************************************************************)
EXTENDS Integers, Sequences, FiniteSets, TLC

VARIABLES args, fs, pc, telemetry, config, calls, probed, status, shadow

vars == <<args, fs, pc, telemetry, config, calls, probed, status, shadow>>

(* ------------------------------ bounds --------------------------------- *)

\* most "_temp" tags in the stem of a video or output file name
MaxTempTags == 2
\* most --no-* flags given on one command line
MaxNoFlags == 1

(* ------------------------- argparse defaults --------------------------- *)

GaugeMaxDefault == 50
WidthDefault == 1920
HeightDefault == 1080
FpsDefault == 30

(* ------------------------------ pathlib -------------------------------- *)

None == <<>>

SeqMax(S) == CHOOSE x \in S : \A y \in S : y <= x

\* name.rfind('.'), 1-based; 0 when there is no dot
RFindDot(name) ==
  LET dots == {i \in 1..Len(name) : name[i] = "."}
  IN  IF dots = {} THEN 0 ELSE SeqMax(dots)

\* PurePath.suffix: from the last dot on, unless that dot is the first or
\* the last character of the name
Suffix(name) ==
  LET i == RFindDot(name)
  IN  IF 1 < i /\ i < Len(name) THEN SubSeq(name, i, Len(name)) ELSE <<>>

\* PurePath.stem
Stem(name) ==
  LET i == RFindDot(name)
  IN  IF 1 < i /\ i < Len(name) THEN SubSeq(name, 1, i - 1) ELSE name

\* PurePath.with_suffix(s)
WithSuffix(name, s) == Stem(name) \o s

\* str.upper() on the atoms
UpperAtom(x) ==
  CASE x = "mp4" -> "MP4"
    [] x = "srt" -> "SRT"
    [] x = "txt" -> "TXT"
    [] x = "a"   -> "A"
    [] OTHER     -> x

Upper(name) == [i \in 1..Len(name) |-> UpperAtom(name[i])]

(* --------------------------- the file system --------------------------- *)

\* a file system is a set of <<path, content>> pairs, one per existing file
Exists(f, p) == \E e \in f : e[1] = p

Content(f, p) == IF Exists(f, p) THEN (CHOOSE e \in f : e[1] = p)[2] ELSE "absent"

Write(f, p, c) == {e \in f : e[1] # p} \cup {<<p, c>>}

Remove(f, p) == {e \in f : e[1] # p}

\* os.rename: the source replaces whatever is at the target
Rename(f, src, dst) == Write(Remove(f, src), dst, Content(f, src))

\* contents only this run's collaborators produce
Produced == {"rendered", "partial", "muxed", "partial_mux", "frames",
             "csv", "json", "gpx"}

(* ----------------------------- parse_args ------------------------------ *)

NoFlags == {"no_altitude", "no_speed", "no_vspeed", "no_coords",
            "no_camera", "no_timestamp", "no_gauge"}

NoFlagSets == {S \in SUBSET NoFlags : Cardinality(S) <= MaxNoFlags}

RECURSIVE Temps(_)
Temps(k) == IF k = 0 THEN <<>> ELSE <<"_temp">> \o Temps(k - 1)

VideoNames == {<<"a">> \o Temps(k) \o <<".", "mp4">> : k \in 0..MaxTempTags}

\* --output of overlay: a video name (the input's own among them), a name
\* of another stem, a name without a suffix
OverlayOutputs == VideoNames \cup {<<"b", ".", "mp4">>, <<"a">>}

SrtNames == {<<"b", ".", "SRT">>}

ExportNames == {<<"a", ".", "csv">>, <<"a", ".", "gpx">>, <<"a", ".", "txt">>}

InfoNames == {<<"b", ".", "SRT">>, <<"b", ".", "srt">>, <<"a", ".", "mp4">>,
              <<"a", ".", "txt">>, <<"a">>}

Canvases == {<<WidthDefault, HeightDefault, FpsDefault>>, <<3840, 2160, 60>>}

GaugeChoices == {GaugeMaxDefault, 80}

\* the attributes no sub-command of the chosen one defines
BaseArgs ==
  [command |-> "", video |-> None, srt |-> None, output |-> None,
   path |-> None, audio |-> FALSE, quiet |-> FALSE, no |-> {},
   gauge_max |-> <<>>, canvas |-> <<>>, format |-> "None"]

\* p_overlay (lines 252-267)
OverlayArgs ==
  {[BaseArgs EXCEPT !.command = "overlay", !.video = v, !.srt = s,
                    !.output = o, !.audio = au, !.quiet = q, !.no = n,
                    !.gauge_max = <<g>>] :
     v \in VideoNames, s \in {None} \cup SrtNames,
     o \in {None} \cup OverlayOutputs, au \in BOOLEAN, q \in BOOLEAN,
     n \in NoFlagSets, g \in GaugeChoices}

\* p_overlay_only (lines 270-286)
OverlayOnlyArgs ==
  {[BaseArgs EXCEPT !.command = "overlay-only", !.srt = s, !.output = o,
                    !.quiet = q, !.no = n, !.gauge_max = <<g>>,
                    !.canvas = c] :
     s \in SrtNames, o \in {None, <<"a", ".", "mp4">>}, q \in BOOLEAN,
     n \in NoFlagSets, g \in GaugeChoices, c \in Canvases}

\* p_frames (lines 289-305): no --gauge-max option
FramesArgs ==
  {[BaseArgs EXCEPT !.command = "frames", !.srt = s, !.output = o,
                    !.quiet = q, !.no = n, !.canvas = c, !.format = f] :
     s \in SrtNames, o \in {None, <<"a">>}, q \in BOOLEAN,
     n \in NoFlagSets, c \in Canvases, f \in {"png", "jpg"}}

\* p_export (lines 308-312)
ExportArgs ==
  {[BaseArgs EXCEPT !.command = "export", !.srt = s, !.output = o,
                    !.format = f] :
     s \in SrtNames, o \in ExportNames, f \in {"None", "csv", "json", "gpx"}}

\* p_info (lines 315-317)
InfoArgs ==
  {[BaseArgs EXCEPT !.command = "info", !.path = p] : p \in InfoNames}

ArgSpace ==
  {BaseArgs} \cup OverlayArgs \cup OverlayOnlyArgs \cup FramesArgs
             \cup ExportArgs \cup InfoArgs

(* ------------------------- locals of the handlers ---------------------- *)

\* cmd_overlay, line 36
VideoPath(a) == a.video

\* line 37 (overlay); lines 92, 131, 169 (the others)
SrtPath(a) ==
  IF a.command = "overlay"
  THEN IF a.srt # None THEN a.srt ELSE WithSuffix(VideoPath(a), <<".", "SRT">>)
  ELSE a.srt

\* lines 47-49, 98-100, 137-139, 175
OutputPath(a) ==
  IF a.output # None THEN a.output
  ELSE CASE a.command = "overlay" ->
              Stem(VideoPath(a)) \o <<"_telemetry", ".", "mp4">>
         [] a.command = "overlay-only" ->
              Stem(SrtPath(a)) \o <<"_overlay", ".", "mp4">>
         [] a.command = "frames" -> Stem(SrtPath(a)) \o <<"_frames">>
         [] OTHER -> a.output

\* line 71
TempOutput(a) == Stem(OutputPath(a)) \o <<"_temp", ".", "mp4">>

\* lines 75, 122, 160
ProgressCallback(a) == IF ~a.quiet THEN "progress_bar" ELSE "None"

\* a variant: show_speed wired to --no-altitude
OverlayConfig_copy_paste(a) ==
  [show_altitude        |-> ~("no_altitude" \in a.no),
   show_speed           |-> ~("no_altitude" \in a.no),
   show_vertical_speed  |-> ~("no_vspeed" \in a.no),
   show_coordinates     |-> ~("no_coords" \in a.no),
   show_camera_settings |-> ~("no_camera" \in a.no),
   show_timestamp       |-> ~("no_timestamp" \in a.no),
   show_speed_gauge     |-> ~("no_gauge" \in a.no),
   gauge_max_speed_kmh  |-> a.gauge_max]

\* lines 59-68 and 106-115
OverlayConfig(a) ==
  [show_altitude        |-> ~("no_altitude" \in a.no),
   show_speed           |-> ~("no_speed" \in a.no),
   show_vertical_speed  |-> ~("no_vspeed" \in a.no),
   show_coordinates     |-> ~("no_coords" \in a.no),
   show_camera_settings |-> ~("no_camera" \in a.no),
   show_timestamp       |-> ~("no_timestamp" \in a.no),
   show_speed_gauge     |-> ~("no_gauge" \in a.no),
   gauge_max_speed_kmh  |-> a.gauge_max]

\* lines 145-153: gauge_max_speed_kmh is not passed (<<>>: the class default)
FramesConfig(a) == [OverlayConfig(a) EXCEPT !.gauge_max_speed_kmh = <<>>]

(* ---------------- the collaborators' effect on the files --------------- *)

\* process_video(video_path, telemetry, output_path, config, cb): writes the
\* composited video to output_path; a failure mid-stream may leave a partial
\* file there
process_video(f, out, o) ==
  CASE o = "ok"           -> Write(f, out, "rendered")
    [] o = "fail_partial" -> Write(f, out, "partial")
    [] OTHER              -> f

\* generate_overlay_video(telemetry, output_path, ...)
generate_overlay_video(f, out, o) ==
  CASE o = "ok"           -> Write(f, out, "rendered")
    [] o = "fail_partial" -> Write(f, out, "partial")
    [] OTHER              -> f

\* generate_overlay_frames(telemetry, output_dir, ...)
generate_overlay_frames(f, out, o) ==
  CASE o = "ok"           -> Write(f, out, "frames")
    [] o = "fail_partial" -> Write(f, out, "partial")
    [] OTHER              -> f

\* add_audio(video, audio_source, output): copies the audio track of
\* audio_source onto the finished video, into output
add_audio(f, out, o) ==
  CASE o = "ok"           -> Write(f, out, "muxed")
    [] o = "fail_partial" -> Write(f, out, "partial_mux")
    [] OTHER              -> f

\* export's format resolution: the explicit argument, else the extension
ResolveFormat(out, fmt) ==
  IF fmt # "None" THEN fmt
  ELSE LET s == Suffix(out)
       IN  IF Len(s) = 2 /\ s[2] \in {"csv", "json", "gpx"} THEN s[2]
           ELSE "unknown"

\* export(track, path, format): an unrecognized format fails before any
\* output is written
ExportOk(out, fmt, o) == o = "ok" /\ ResolveFormat(out, fmt) # "unknown"

export(f, out, fmt, o) ==
  IF ExportOk(out, fmt, o) THEN Write(f, out, ResolveFormat(out, fmt)) ELSE f

(* ------------------------------ one run -------------------------------- *)

\* a completed call of a collaborator or a file operation, in call order
Call(fn, paths, track, cfg, dims, fmt, cb, res) ==
  [fn |-> fn, paths |-> paths, track |-> track, cfg |-> cfg, dims |-> dims,
   fmt |-> fmt, cb |-> cb, res |-> res]

Res(ok) == IF ok THEN "ok" ELSE "raised"

Log(r, c) == [r EXCEPT !.calls = Append(@, c)]

\* p.exists(): the path asked about and the answer, in order
Probe(r, p) == [r EXCEPT !.probed = Append(@, <<p, Exists(r.fs, p)>>)]

Goto(r, l) == [r EXCEPT !.pc = l]

\* return st / an exception leaving the handler
Return(r, st) == [r EXCEPT !.status = st, !.pc = "done"]

Raise(r) == Return(r, "raised")

\* the files an invocation names may exist or not when it starts; overlay
\* may find an older file where its output is to go
InitialFiles(a) ==
  CASE a.command = "overlay" ->
         LET inputs == SUBSET {<<VideoPath(a), "source">>, <<SrtPath(a), "srt">>}
         IN  inputs \cup
               {f \cup {<<OutputPath(a), "old">>} :
                  f \in {g \in inputs : OutputPath(a) \notin {VideoPath(a), SrtPath(a)}}}
    [] a.command \in {"overlay-only", "frames", "export"} ->
         {{}, {<<SrtPath(a), "srt">>}}
    [] a.command = "info" -> {{}, {<<a.path, "input">>}}
    [] OTHER -> {{}}

NewRun(a, f) ==
  [args |-> a, fs |-> f, pc |-> "main", telemetry |-> <<>>, config |-> <<>>,
   calls |-> <<>>, probed |-> <<>>, status |-> "running"]

(* ------------------------------- main ---------------------------------- *)

EntryOf(c) ==
  CASE c = "overlay"      -> "overlay_check"
    [] c = "overlay-only" -> "overlay_only_check"
    [] c = "frames"       -> "frames_check"
    [] c = "export"       -> "export_check"
    [] c = "info"         -> "info_check"

\* lines 319-325
main(r) ==
  IF r.args.command = "" THEN Return(r, "exit1")
  ELSE Goto(r, EntryOf(r.args.command))

\* a variant: a parse failure is swallowed and the handler goes on
ParseSrt_swallow(r, p, o, next) ==
  Goto(Log(r, Call("parse_srt", <<p>>, <<>>, <<>>, <<>>, "None", "None",
                   Res(o = "ok"))), next)

\* parse_srt(p) and what each handler does with its result
ParseSrt(r, p, o, next) ==
  IF o = "ok"
  THEN Goto([Log(r, Call("parse_srt", <<p>>, <<>>, <<>>, <<>>, "None", "None", "ok"))
              EXCEPT !.telemetry = <<p>>], next)
  ELSE Raise(Log(r, Call("parse_srt", <<p>>, <<>>, <<>>, <<>>, "None", "None", "raised")))

\* the SRT check shared by overlay-only, frames and export
SrtCheck(r, next) ==
  LET r1 == Probe(r, SrtPath(r.args))
  IN  IF ~Exists(r.fs, SrtPath(r.args)) THEN Return(r1, "exit1")
      ELSE Goto(r1, next)

BuildConfig(r, cfg, next) ==
  Goto([Log(r, Call("OverlayConfig", <<>>, <<>>, <<cfg>>, <<>>, "None", "None", "ok"))
         EXCEPT !.config = <<cfg>>], next)

(* ----------------------------- cmd_overlay ----------------------------- *)

\* a variant: the SRT file is not checked
cmd_overlay_check_no_srt(r) ==
  LET a  == r.args
      r1 == Probe(r, VideoPath(a))
  IN  IF ~Exists(r.fs, VideoPath(a)) THEN Return(r1, "exit1")
      ELSE Goto(r1, "overlay_parse")

\* lines 36-49
cmd_overlay_check(r) ==
  LET a  == r.args
      r1 == Probe(r, VideoPath(a))
      r2 == Probe(r1, SrtPath(a))
  IN  IF ~Exists(r.fs, VideoPath(a)) THEN Return(r1, "exit1")
      ELSE IF ~Exists(r.fs, SrtPath(a)) THEN Return(r2, "exit1")
      ELSE Goto(r2, "overlay_parse")

\* lines 51-56
cmd_overlay_parse(r, o) == ParseSrt(r, SrtPath(r.args), o, "overlay_config")

\* lines 58-68
cmd_overlay_config(r) == BuildConfig(r, OverlayConfig(r.args), "overlay_process")

\* a variant: process_video is given output_path itself, no temporary file
cmd_overlay_process_direct(r, o) ==
  LET a == r.args
      c == Call("process_video", <<VideoPath(a), OutputPath(a)>>, r.telemetry,
                r.config, <<>>, "None", ProgressCallback(a), Res(o = "ok"))
      r1 == [Log(r, c) EXCEPT !.fs = process_video(@, OutputPath(a), o)]
  IN  IF o # "ok" THEN Raise(r1)
      ELSE IF a.audio THEN Goto(r1, "overlay_audio")
      ELSE Goto(r1, "overlay_rename")

\* a variant: the audio branch sits under "if not args.quiet"
cmd_overlay_process_quiet_skips_audio(r, o) ==
  LET a == r.args
      c == Call("process_video", <<VideoPath(a), TempOutput(a)>>, r.telemetry,
                r.config, <<>>, "None", ProgressCallback(a), Res(o = "ok"))
      r1 == [Log(r, c) EXCEPT !.fs = process_video(@, TempOutput(a), o)]
  IN  IF o # "ok" THEN Raise(r1)
      ELSE IF a.audio /\ ~a.quiet THEN Goto(r1, "overlay_audio")
      ELSE Goto(r1, "overlay_rename")

\* lines 70-79: process_video writes temp_output, then the audio branch
cmd_overlay_process(r, o) ==
  LET a == r.args
      c == Call("process_video", <<VideoPath(a), TempOutput(a)>>, r.telemetry,
                r.config, <<>>, "None", ProgressCallback(a), Res(o = "ok"))
      r1 == [Log(r, c) EXCEPT !.fs = process_video(@, TempOutput(a), o)]
  IN  IF o # "ok" THEN Raise(r1)
      ELSE IF a.audio THEN Goto(r1, "overlay_audio")
      ELSE Goto(r1, "overlay_rename")

\* a variant: the first two arguments of add_audio swapped
cmd_overlay_audio_swapped(r, o) ==
  LET a == r.args
      c == Call("add_audio", <<VideoPath(a), TempOutput(a), OutputPath(a)>>,
                <<>>, <<>>, <<>>, "None", "None", Res(o = "ok"))
      r1 == [Log(r, c) EXCEPT !.fs = add_audio(@, OutputPath(a), o)]
  IN  IF o # "ok" THEN Raise(r1) ELSE Goto(r1, "overlay_unlink")

\* lines 80-81
cmd_overlay_audio(r, o) ==
  LET a == r.args
      c == Call("add_audio", <<TempOutput(a), VideoPath(a), OutputPath(a)>>,
                <<>>, <<>>, <<>>, "None", "None", Res(o = "ok"))
      r1 == [Log(r, c) EXCEPT !.fs = add_audio(@, OutputPath(a), o)]
  IN  IF o # "ok" THEN Raise(r1) ELSE Goto(r1, "overlay_unlink")

\* a variant: the temporary file is not unlinked
cmd_overlay_unlink_forgotten(r) == Return(r, "exit0")

\* lines 82, 86-87
cmd_overlay_unlink(r) ==
  LET t == TempOutput(r.args)
      ok == Exists(r.fs, t)
      r1 == [Log(r, Call("unlink", <<t>>, <<>>, <<>>, <<>>, "None", "None", Res(ok)))
              EXCEPT !.fs = Remove(@, t)]
  IN  IF ok THEN Return(r1, "exit0") ELSE Raise(r1)

\* lines 84, 86-87
cmd_overlay_rename(r) ==
  LET t == TempOutput(r.args)
      out == OutputPath(r.args)
      ok == Exists(r.fs, t)
      c == Call("rename", <<t, out>>, <<>>, <<>>, <<>>, "None", "None", Res(ok))
  IN  IF ok THEN Return([Log(r, c) EXCEPT !.fs = Rename(@, t, out)], "exit0")
      ELSE Raise(Log(r, c))

(* --------------------------- cmd_overlay_only -------------------------- *)

\* lines 92-100
cmd_overlay_only_check(r) == SrtCheck(r, "overlay_only_parse")

\* lines 102-104
cmd_overlay_only_parse(r, o) ==
  ParseSrt(r, SrtPath(r.args), o, "overlay_only_config")

\* lines 106-115
cmd_overlay_only_config(r) ==
  BuildConfig(r, OverlayConfig(r.args), "overlay_only_generate")

\* lines 117-126
cmd_overlay_only_generate(r, o) ==
  LET a == r.args
      c == Call("generate_overlay_video", <<OutputPath(a)>>, r.telemetry,
                r.config, a.canvas, "None", ProgressCallback(a), Res(o = "ok"))
      r1 == [Log(r, c) EXCEPT !.fs = generate_overlay_video(@, OutputPath(a), o)]
  IN  IF o # "ok" THEN Raise(r1) ELSE Return(r1, "exit0")

(* ------------------------------ cmd_frames ----------------------------- *)

\* a variant: frames also wants the video beside the SRT file
cmd_frames_check_video(r) ==
  LET v  == WithSuffix(SrtPath(r.args), <<".", "mp4">>)
      r1 == Probe(Probe(r, SrtPath(r.args)), v)
  IN  IF ~Exists(r.fs, SrtPath(r.args)) \/ ~Exists(r.fs, v)
      THEN Return(r1, "exit1")
      ELSE Goto(r1, "frames_parse")

\* lines 131-139
cmd_frames_check(r) == SrtCheck(r, "frames_parse")

\* lines 141-143
cmd_frames_parse(r, o) == ParseSrt(r, SrtPath(r.args), o, "frames_config")

\* lines 145-153
cmd_frames_config(r) == BuildConfig(r, FramesConfig(r.args), "frames_generate")

\* lines 155-164
cmd_frames_generate(r, o) ==
  LET a == r.args
      c == Call("generate_overlay_frames", <<OutputPath(a)>>, r.telemetry,
                r.config, a.canvas, a.format, ProgressCallback(a), Res(o = "ok"))
      r1 == [Log(r, c) EXCEPT !.fs = generate_overlay_frames(@, OutputPath(a), o)]
  IN  IF o # "ok" THEN Raise(r1) ELSE Return(r1, "exit0")

(* ------------------------------ cmd_export ----------------------------- *)

\* lines 169-175
cmd_export_check(r) == SrtCheck(r, "export_parse")

\* lines 177-181
cmd_export_parse(r, o) == ParseSrt(r, SrtPath(r.args), o, "export_export")

\* a variant: a recognized extension wins over --format
ExportFormat_inferred(a) ==
  LET s == Suffix(OutputPath(a))
  IN  IF Len(s) = 2 /\ s[2] \in {"csv", "json", "gpx"} THEN s[2] ELSE a.format

\* line 184: the format handed to export
ExportFormat(a) == a.format

\* lines 183-187
cmd_export_export(r, o) ==
  LET a == r.args
      ok == ExportOk(OutputPath(a), ExportFormat(a), o)
      c == Call("export", <<OutputPath(a)>>, r.telemetry, <<>>, <<>>,
                ExportFormat(a), "None", Res(ok))
      r1 == [Log(r, c) EXCEPT !.fs = export(@, OutputPath(a), ExportFormat(a), o)]
  IN  IF ok THEN Return(r1, "exit0") ELSE Raise(r1)

(* ------------------------------- cmd_info ------------------------------ *)

VideoSuffixes == {<<".", "MP4">>, <<".", "MOV">>, <<".", "AVI">>, <<".", "MKV">>}

\* lines 192-198, 210, 219-221
cmd_info_check(r) ==
  LET p  == r.args.path
      r1 == Probe(r, p)
  IN  IF ~Exists(r.fs, p) THEN Return(r1, "exit1")
      ELSE IF Upper(Suffix(p)) = <<".", "SRT">> THEN Goto(r1, "info_srt")
      ELSE IF Upper(Suffix(p)) \in VideoSuffixes THEN Goto(r1, "info_video")
      ELSE Return(r1, "exit1")

\* lines 199-208, 223
cmd_info_srt(r, o) ==
  LET r1 == ParseSrt(r, r.args.path, o, "done")
  IN  IF o = "ok" THEN Return(r1, "exit0") ELSE r1

\* lines 211-217, 223
cmd_info_video(r, o) ==
  LET c == Call("get_video_info", <<r.args.path>>, <<>>, <<>>, <<>>, "None",
                "None", Res(o = "ok"))
  IN  IF o = "ok" THEN Return(Log(r, c), "exit0") ELSE Raise(Log(r, c))

(* --------------------------- the state machine ------------------------- *)

\* the run as one record
Cur ==
  [args |-> args, fs |-> fs, pc |-> pc, telemetry |-> telemetry,
   config |-> config, calls |-> calls, probed |-> probed, status |-> status]

\* one step of a run from wherever it stands, the collaborator it calls (if
\* any) ending as o
StepRun(r, o) ==
  CASE r.pc = "main"                  -> main(r)
    [] r.pc = "overlay_check"         -> cmd_overlay_check(r)
    [] r.pc = "overlay_parse"         -> cmd_overlay_parse(r, o)
    [] r.pc = "overlay_config"        -> cmd_overlay_config(r)
    [] r.pc = "overlay_process"       -> cmd_overlay_process(r, o)
    [] r.pc = "overlay_audio"         -> cmd_overlay_audio(r, o)
    [] r.pc = "overlay_unlink"        -> cmd_overlay_unlink(r)
    [] r.pc = "overlay_rename"        -> cmd_overlay_rename(r)
    [] r.pc = "overlay_only_check"    -> cmd_overlay_only_check(r)
    [] r.pc = "overlay_only_parse"    -> cmd_overlay_only_parse(r, o)
    [] r.pc = "overlay_only_config"   -> cmd_overlay_only_config(r)
    [] r.pc = "overlay_only_generate" -> cmd_overlay_only_generate(r, o)
    [] r.pc = "frames_check"          -> cmd_frames_check(r)
    [] r.pc = "frames_parse"          -> cmd_frames_parse(r, o)
    [] r.pc = "frames_config"         -> cmd_frames_config(r)
    [] r.pc = "frames_generate"       -> cmd_frames_generate(r, o)
    [] r.pc = "export_check"          -> cmd_export_check(r)
    [] r.pc = "export_parse"          -> cmd_export_parse(r, o)
    [] r.pc = "export_export"         -> cmd_export_export(r, o)
    [] r.pc = "info_check"            -> cmd_info_check(r)
    [] r.pc = "info_srt"              -> cmd_info_srt(r, o)
    [] r.pc = "info_video"            -> cmd_info_video(r, o)
    [] OTHER                          -> r

\* the run moves to r; the run of the same command line with --quiet
\* flipped, in the same files and with the same collaborator outcomes, takes
\* its own next step
Commit(r, o) ==
  /\ args' = r.args
  /\ fs' = r.fs
  /\ pc' = r.pc
  /\ telemetry' = r.telemetry
  /\ config' = r.config
  /\ calls' = r.calls
  /\ probed' = r.probed
  /\ status' = r.status
  /\ shadow' = StepRun(shadow, o)

ParseOutcomes == {"ok", "fail"}

WriteOutcomes == {"ok", "fail", "fail_partial"}

Init ==
  \E a \in ArgSpace : \E f \in InitialFiles(a) :
    /\ args = a
    /\ fs = f
    /\ pc = "main"
    /\ telemetry = <<>>
    /\ config = <<>>
    /\ calls = <<>>
    /\ probed = <<>>
    /\ status = "running"
    /\ shadow = NewRun([a EXCEPT !.quiet = ~a.quiet], f)

Main == pc = "main" /\ Commit(main(Cur), "ok")

OverlayCheck == pc = "overlay_check" /\ Commit(cmd_overlay_check(Cur), "ok")

OverlayParse ==
  pc = "overlay_parse" /\ \E o \in ParseOutcomes : Commit(cmd_overlay_parse(Cur, o), o)

OverlayConfigure == pc = "overlay_config" /\ Commit(cmd_overlay_config(Cur), "ok")

OverlayProcess ==
  pc = "overlay_process" /\ \E o \in WriteOutcomes : Commit(cmd_overlay_process(Cur, o), o)

OverlayAudio ==
  pc = "overlay_audio" /\ \E o \in WriteOutcomes : Commit(cmd_overlay_audio(Cur, o), o)

OverlayUnlink == pc = "overlay_unlink" /\ Commit(cmd_overlay_unlink(Cur), "ok")

OverlayRename == pc = "overlay_rename" /\ Commit(cmd_overlay_rename(Cur), "ok")

OverlayOnlyCheck ==
  pc = "overlay_only_check" /\ Commit(cmd_overlay_only_check(Cur), "ok")

OverlayOnlyParse ==
  pc = "overlay_only_parse"
    /\ \E o \in ParseOutcomes : Commit(cmd_overlay_only_parse(Cur, o), o)

OverlayOnlyConfigure ==
  pc = "overlay_only_config" /\ Commit(cmd_overlay_only_config(Cur), "ok")

OverlayOnlyGenerate ==
  pc = "overlay_only_generate"
    /\ \E o \in WriteOutcomes : Commit(cmd_overlay_only_generate(Cur, o), o)

FramesCheck == pc = "frames_check" /\ Commit(cmd_frames_check(Cur), "ok")

FramesParse ==
  pc = "frames_parse" /\ \E o \in ParseOutcomes : Commit(cmd_frames_parse(Cur, o), o)

FramesConfigure == pc = "frames_config" /\ Commit(cmd_frames_config(Cur), "ok")

FramesGenerate ==
  pc = "frames_generate" /\ \E o \in WriteOutcomes : Commit(cmd_frames_generate(Cur, o), o)

ExportCheck == pc = "export_check" /\ Commit(cmd_export_check(Cur), "ok")

ExportParse ==
  pc = "export_parse" /\ \E o \in ParseOutcomes : Commit(cmd_export_parse(Cur, o), o)

ExportExport ==
  pc = "export_export" /\ \E o \in ParseOutcomes : Commit(cmd_export_export(Cur, o), o)

InfoCheck == pc = "info_check" /\ Commit(cmd_info_check(Cur), "ok")

InfoSrt == pc = "info_srt" /\ \E o \in ParseOutcomes : Commit(cmd_info_srt(Cur, o), o)

InfoVideo == pc = "info_video" /\ \E o \in ParseOutcomes : Commit(cmd_info_video(Cur, o), o)

Next ==
  \/ Main
  \/ OverlayCheck \/ OverlayParse \/ OverlayConfigure \/ OverlayProcess
  \/ OverlayAudio \/ OverlayUnlink \/ OverlayRename
  \/ OverlayOnlyCheck \/ OverlayOnlyParse \/ OverlayOnlyConfigure
  \/ OverlayOnlyGenerate
  \/ FramesCheck \/ FramesParse \/ FramesConfigure \/ FramesGenerate
  \/ ExportCheck \/ ExportParse \/ ExportExport
  \/ InfoCheck \/ InfoSrt \/ InfoVideo

Spec == Init /\ [][Next]_vars

(* ------------------------- reading the call log ------------------------ *)

CallsOf(fn) == {i \in 1..Len(calls) : calls[i].fn = fn}

PipelineFns == {"process_video", "generate_overlay_video", "generate_overlay_frames"}

OutputFns == PipelineFns \cup {"export", "add_audio", "rename", "unlink"}

RenderCommands == {"overlay", "overlay-only", "frames"}

Untouched(f) == \A e \in f : e[2] \notin Produced

AllOk == \A i \in 1..Len(calls) : calls[i].res = "ok"

TempOf(out) == Stem(out) \o <<"_temp", ".", "mp4">>

(* --------------------------------- C1 ---------------------------------- *)

\* C1: process_video is only ever given <output stem>_temp.mp4, never
\* output_path; rename and add_audio happen only after a process_video call
\* that returned; and once process_video has failed the run ends there with
\* no file produced by this run at output_path.
C1_NoTruncatedOutput ==
  /\ \A i \in CallsOf("process_video") :
       /\ calls[i].paths[2] = TempOf(OutputPath(args))
       /\ calls[i].paths[2] # OutputPath(args)
  /\ \A i \in CallsOf("rename") \cup CallsOf("add_audio") :
       \E j \in 1..(i - 1) : calls[j].fn = "process_video" /\ calls[j].res = "ok"
  /\ \A i \in CallsOf("process_video") :
       calls[i].res = "raised" =>
         /\ i = Len(calls)
         /\ status = "raised"
         /\ Content(fs, OutputPath(args)) \notin Produced

C1_Witness ==
  /\ args.command = "overlay"
  /\ status = "raised"
  /\ \E i \in CallsOf("process_video") : calls[i].res = "raised"
  /\ Content(fs, TempOf(OutputPath(args))) = "partial"
  /\ Content(fs, OutputPath(args)) = "old"

(* --------------------------------- C2 ---------------------------------- *)

\* C2: add_audio is called at most once, only with --audio, only right
\* after process_video has returned, with (finished temp video, original
\* video, output_path) as its arguments; without --audio it is never called,
\* and a successful --audio run has called it.
C2_AudioAfterLoop ==
  /\ Cardinality(CallsOf("add_audio")) <= 1
  /\ \A i \in CallsOf("add_audio") :
       /\ args.command = "overlay" /\ args.audio
       /\ i > 1
       /\ calls[i - 1].fn = "process_video" /\ calls[i - 1].res = "ok"
       /\ calls[i].paths = <<calls[i - 1].paths[2], args.video, OutputPath(args)>>
       /\ \A j \in CallsOf("process_video") : j < i
  /\ ~args.audio => CallsOf("add_audio") = {}
  /\ (args.command = "overlay" /\ args.audio /\ status = "exit0")
       => Cardinality(CallsOf("add_audio")) = 1

C2_Witness ==
  \E i \in CallsOf("add_audio") : calls[i].res = "ok" /\ status = "exit0"

(* --------------------------------- C3 ---------------------------------- *)

Erase(cs) == [i \in 1..Len(cs) |-> [cs[i] EXCEPT !.cb = "None"]]

CallbackFor(a) == IF a.quiet THEN "None" ELSE "progress_bar"

CallbacksAsAsked(cs, a) ==
  \A i \in 1..Len(cs) :
    cs[i].cb = IF cs[i].fn \in PipelineFns THEN CallbackFor(a) ELSE "None"

\* C3: the run of the same command line with --quiet flipped, in the same
\* files and with the same collaborator outcomes, passes progress_bar where
\* this one passes None (or the reverse) and is otherwise the same: the same
\* calls and file operations with the same other arguments in the same
\* order, the same probes, the same files and the same exit status.
C3_QuietChangesOnlyCallback ==
  /\ shadow.args = [args EXCEPT !.quiet = ~args.quiet]
  /\ CallbacksAsAsked(calls, args)
  /\ CallbacksAsAsked(shadow.calls, shadow.args)
  /\ Erase(shadow.calls) = Erase(calls)
  /\ shadow.probed = probed
  /\ shadow.fs = fs
  /\ shadow.status = status
  /\ shadow.pc = pc

C3_Witness ==
  /\ args.command = "overlay" /\ args.audio /\ ~args.quiet
  /\ status = "exit0"
  /\ \E i \in CallsOf("process_video") :
       calls[i].cb = "progress_bar" /\ shadow.calls[i].cb = "None"

(* --------------------------------- C4 ---------------------------------- *)

TogglesFromFlags(c, a) ==
  /\ c.show_altitude = ~("no_altitude" \in a.no)
  /\ c.show_speed = ~("no_speed" \in a.no)
  /\ c.show_vertical_speed = ~("no_vspeed" \in a.no)
  /\ c.show_coordinates = ~("no_coords" \in a.no)
  /\ c.show_camera_settings = ~("no_camera" \in a.no)
  /\ c.show_timestamp = ~("no_timestamp" \in a.no)
  /\ c.show_speed_gauge = ~("no_gauge" \in a.no)

\* the config is built once, before the pipeline call, which receives it as
\* built
ConfigBuiltOnce ==
  /\ Cardinality(CallsOf("OverlayConfig")) <= 1
  /\ \A j \in CallsOf("OverlayConfig") :
       /\ args.command \in RenderCommands
       /\ TogglesFromFlags(calls[j].cfg[1], args)
       /\ config = calls[j].cfg
  /\ CallsOf("OverlayConfig") = {} => config = <<>>
  /\ \A i \in 1..Len(calls) :
       calls[i].fn \in PipelineFns =>
         /\ calls[i].cfg = config
         /\ \E j \in 1..(i - 1) : calls[j].fn = "OverlayConfig"

GaugeFromCaller(c) ==
  Len(c.gauge_max_speed_kmh) = 1 /\ c.gauge_max_speed_kmh = args.gauge_max

GaugeFromCallerWhereOffered(c) ==
  IF args.command \in {"overlay", "overlay-only"} THEN GaugeFromCaller(c)
  ELSE c.gauge_max_speed_kmh = <<>>

\* C4 as claimed: in overlay, overlay-only and frames the config is built
\* once, before the pipeline call, its seven toggles the negations of the
\* --no-* flags and its gauge_max_speed_kmh the caller's gauge maximum, and
\* the pipeline receives that config.
C4_AsClaimed ==
  /\ ConfigBuiltOnce
  /\ \A j \in CallsOf("OverlayConfig") : GaugeFromCaller(calls[j].cfg[1])

\* C4 as amended: the same, except that gauge_max_speed_kmh is the caller's
\* gauge maximum in overlay and overlay-only only; frames has no --gauge-max
\* and builds its config without gauge_max_speed_kmh (the class default).
C4_ConfigFromFlags ==
  /\ ConfigBuiltOnce
  /\ \A j \in CallsOf("OverlayConfig") :
       GaugeFromCallerWhereOffered(calls[j].cfg[1])

C4_Witness ==
  /\ args.command = "frames" /\ args.no = {"no_gauge"}
  /\ \E i \in CallsOf("generate_overlay_frames") :
       calls[i].cfg[1].show_speed_gauge = FALSE
         /\ calls[i].cfg[1].show_altitude = TRUE
         /\ calls[i].cfg[1].gauge_max_speed_kmh = <<>>

(* --------------------------------- C5 ---------------------------------- *)

ParsesSrt(a) ==
  \/ a.command \in {"overlay", "overlay-only", "frames", "export"}
  \/ a.command = "info" /\ Upper(Suffix(a.path)) = <<".", "SRT">>

\* C5: parse_srt is called at most once, and exactly once in every run that
\* gets past its input checks to an output call or to status 0; every call
\* of a pipeline function, export, add_audio, rename or unlink comes after a
\* parse_srt that returned, and the pipeline functions and export are given
\* the track it returned; if parse_srt fails the run ends there, with no
\* such call and no file produced.
C5_ParseGatesOutput ==
  /\ Cardinality(CallsOf("parse_srt")) <= 1
  /\ \A i \in 1..Len(calls) :
       calls[i].fn \in OutputFns =>
         \E j \in 1..(i - 1) :
           /\ calls[j].fn = "parse_srt" /\ calls[j].res = "ok"
           /\ calls[j].paths = <<SrtPath(args)>>
           /\ calls[i].fn \in PipelineFns \cup {"export"}
                => calls[i].track = calls[j].paths
  /\ \A j \in CallsOf("parse_srt") :
       calls[j].res = "raised" =>
         /\ j = Len(calls)
         /\ status = "raised"
         /\ Untouched(fs)
  /\ (status = "exit0" /\ ParsesSrt(args)) => Cardinality(CallsOf("parse_srt")) = 1

C5_Witness ==
  /\ args.command = "export"
  /\ status = "raised"
  /\ \E j \in CallsOf("parse_srt") : calls[j].res = "raised"

(* --------------------------------- C6 ---------------------------------- *)

\* C6: cmd_export hands export the --format value as given (None when it
\* was omitted), whatever the extension of the output path; the value is
\* None, csv, json or gpx; export is called at most once, and once in a run
\* that returns 0; until that call nothing has been written.
C6_ExplicitFormatForwarded ==
  args.command = "export" =>
    /\ args.format \in {"None", "csv", "json", "gpx"}
    /\ Cardinality(CallsOf("export")) <= 1
    /\ \A i \in CallsOf("export") :
         /\ calls[i].fmt = args.format
         /\ calls[i].paths = <<args.output>>
    /\ status = "exit0" => Cardinality(CallsOf("export")) = 1
    /\ CallsOf("export") = {} => Untouched(fs) /\ ~Exists(fs, args.output)

C6_Witness ==
  /\ args.command = "export"
  /\ args.format = "gpx" /\ Suffix(args.output) = <<".", "csv">>
  /\ status = "exit0"
  /\ \E i \in CallsOf("export") : calls[i].fmt = "gpx"

(* --------------------------------- C7 ---------------------------------- *)

PipelineOf(c) ==
  CASE c = "overlay"      -> "process_video"
    [] c = "overlay-only" -> "generate_overlay_video"
    [] c = "frames"       -> "generate_overlay_frames"
    [] OTHER              -> "none"

\* C7: a rendering command calls only its own pipeline function; overlay-only
\* and frames ask only whether the SRT file exists, hand no video path to
\* any collaborator, take width, height and fps from the arguments, and
\* return 0 whenever the SRT file exists and the calls they make succeed.
C7_OneModeNoVideo ==
  /\ \A i \in 1..Len(calls) :
       calls[i].fn \in PipelineFns => calls[i].fn = PipelineOf(args.command)
  /\ args.command \in {"overlay-only", "frames"} =>
       /\ \A k \in 1..Len(probed) : probed[k][1] = args.srt
       /\ \A i \in 1..Len(calls) :
            /\ calls[i].fn \in {"parse_srt", "OverlayConfig", PipelineOf(args.command)}
            /\ calls[i].fn = "parse_srt" => calls[i].paths = <<args.srt>>
            /\ calls[i].fn \in PipelineFns =>
                 /\ calls[i].paths = <<OutputPath(args)>>
                 /\ calls[i].dims = args.canvas
       /\ (pc = "done" /\ Exists(fs, args.srt) /\ AllOk) => status = "exit0"

C7_Witness ==
  /\ args.command = "overlay-only"
  /\ status = "exit0"
  /\ \A e \in fs : e[2] # "source"
  /\ \E i \in CallsOf("generate_overlay_video") : calls[i].dims = <<3840, 2160, 60>>

(* --------------------------------- C8 ---------------------------------- *)

\* C8: no path cmd_overlay writes to, renames onto or unlinks is the video
\* path, and the source video is unchanged throughout the run.
C8_InputPreserved ==
  args.command = "overlay" =>
    /\ \A i \in CallsOf("process_video") : calls[i].paths[2] # args.video
    /\ \A i \in CallsOf("add_audio") : calls[i].paths[3] # args.video
    /\ \A i \in CallsOf("rename") :
         calls[i].paths[1] # args.video /\ calls[i].paths[2] # args.video
    /\ \A i \in CallsOf("unlink") : calls[i].paths[1] # args.video
    /\ (Len(probed) > 0 /\ probed[1][2]) => Content(fs, args.video) = "source"

(* --------------------------------- C9 ---------------------------------- *)

\* the inputs a command requires, in the order it checks them
RequiredInputs(a) ==
  CASE a.command = "overlay" -> <<a.video, SrtPath(a)>>
    [] a.command \in {"overlay-only", "frames", "export"} -> <<a.srt>>
    [] a.command = "info" -> <<a.path>>
    [] OTHER -> <<>>

FinalCalls(a) ==
  CASE a.command = "overlay" -> {"unlink", "rename"}
    [] a.command = "overlay-only" -> {"generate_overlay_video"}
    [] a.command = "frames" -> {"generate_overlay_frames"}
    [] a.command = "export" -> {"export"}
    [] a.command = "info" -> {"parse_srt", "get_video_info"}
    [] OTHER -> {}

\* C9: the required inputs are checked in order (video, then SRT, for
\* overlay) and the first missing one ends the run with status 1, nothing
\* called and no file created, renamed or deleted; a collaborator is called
\* only when every required input exists; status 0 is returned only after
\* every call has completed, the command's last one included.
C9_MissingInputExits1 ==
  /\ Len(probed) <= Len(RequiredInputs(args))
  /\ \A k \in 1..Len(probed) :
       /\ probed[k][1] = RequiredInputs(args)[k]
       /\ k < Len(probed) => probed[k][2]
  /\ (Len(probed) > 0 /\ ~probed[Len(probed)][2]) =>
       /\ status = "exit1" /\ pc = "done"
       /\ calls = <<>>
       /\ Untouched(fs)
       /\ \A k \in 1..Len(probed) : Exists(fs, probed[k][1]) = probed[k][2]
  /\ calls # <<>> =>
       /\ Len(probed) = Len(RequiredInputs(args))
       /\ \A k \in 1..Len(probed) : probed[k][2]
  /\ status = "exit0" =>
       /\ AllOk
       /\ calls # <<>> /\ calls[Len(calls)].fn \in FinalCalls(args)

C9_Witness ==
  /\ args.command = "overlay"
  /\ pc = "done" /\ status = "exit1"
  /\ Len(probed) = 2 /\ probed[1][2] /\ ~probed[2][2]
  /\ calls = <<>>

(* --------------------------------- C10 --------------------------------- *)

EndsWithAudioThenUnlink ==
  LET n == Len(calls)
  IN  /\ n >= 2
      /\ calls[n - 1].fn = "add_audio" /\ calls[n - 1].res = "ok"
      /\ calls[n - 1].paths =
           <<TempOf(OutputPath(args)), args.video, OutputPath(args)>>
      /\ calls[n].fn = "unlink" /\ calls[n].res = "ok"
      /\ calls[n].paths = <<TempOf(OutputPath(args))>>
      /\ CallsOf("rename") = {}

EndsWithRename ==
  LET n == Len(calls)
  IN  /\ n >= 1
      /\ calls[n].fn = "rename" /\ calls[n].res = "ok"
      /\ calls[n].paths = <<TempOf(OutputPath(args)), OutputPath(args)>>
      /\ CallsOf("add_audio") = {} /\ CallsOf("unlink") = {}

\* C10: when cmd_overlay returns 0 the file <output stem>_temp.mp4 is gone
\* and output_path exists, and the run ended in exactly one of add_audio
\* then unlink of the temp file (with --audio) or rename of the temp file to
\* output_path (without).
C10_TempGoneOutputThere ==
  (args.command = "overlay" /\ status = "exit0") =>
    /\ ~Exists(fs, TempOf(OutputPath(args)))
    /\ Exists(fs, OutputPath(args))
    /\ args.audio => EndsWithAudioThenUnlink /\ ~EndsWithRename
    /\ ~args.audio => EndsWithRename /\ ~EndsWithAudioThenUnlink

C10_Witness ==
  /\ args.command = "overlay" /\ status = "exit0" /\ args.audio
  /\ Content(fs, OutputPath(args)) = "muxed"
  /\ args.output = None

====
